---- MODULE Spec2Model ----
(***************************************************************************)
(* Model of profile_rds.py: the batch run of __main__ (parameter groups,   *)
(* the three thread fan-outs joined stage by stage, cleanup), the worker   *)
(* functions create_db, load_db and perform_rds_test, and the RDS account  *)
(* and MySQL servers they talk to.                                         *)
(***************************************************************************)
EXTENDS Integers, Sequences, FiniteSets, TLC

VARIABLES
    mainpc,      \* position of the main thread in __main__
    stage,       \* which fan-out the main thread is launching / joining
    idx,         \* loop index of the main thread (enumerate / comprehension)
    pvi,         \* position in the current param_set (create_param_groups)
    params,      \* the list `parameters` of __main__ (mutated by add_utf8_support)
    pgroups,     \* retVal of create_param_groups / pgroups of __main__
    pgExists,    \* parameter groups existing in the RDS account
    applied,     \* per parameter group name: sequence of applied <<param, value>>
    specs,       \* the variant specifications as written, before add_utf8_support
    fetches,     \* markers of the get_all_dbparameters calls of the last set_param
    paramPage,   \* catalog page holding the parameter of the last set_param
    wpc,         \* wpc[s][i]: position of the worker thread of stage s, variant i
    seen,        \* seen[i]: inst.status as last refreshed by create_db worker i
    nexec,       \* nexec[s][i]: number of statements executed so far
    dbopen,      \* dbopen[s][i]: worker holds an open MySQLdb connection
    curopen,     \* curopen[s][i]: worker holds an open cursor
    granted,     \* granted[i]: the server of variant i has testdata + testuser
    issued,      \* issued[i]: statements issued by perform_test on variant i
    log,         \* logging.error entries written: set of <<kind, instance id>>
    account,     \* RDS account: instance id -> status ("absent" when none)
    loop,        \* cleanup: loop counter
    rs,          \* cleanup: last listing, sequence of [id, status]
    label_rs,    \* cleanup: listing filtered by label (True before the loop)
    fi,          \* cleanup: position of the for loop over label_rs / pgroups
    listings,    \* number of get_all_dbinstances calls made by cleanup
    roundReq,    \* ids whose deletion was requested in the current round
    delReq,      \* ids whose deletion was requested by cleanup so far
    pgDeleted,   \* parameter groups for which delete_parameter_group was issued
    loaded,      \* loaded[i]: statements load_db passed to c.execute, with outcome
    target,      \* target[s][i]: the instance id the worker of stage s used
    report,      \* what the last profile_report call built and logged
    fate,        \* where the remote system takes each new instance
    faultStage,  \* the stage in which calls of variant i may fail
    testSql,     \* the list test_sql() returns
    loadSql,     \* the list load_data_sql() returns
    reqProfiles  \* the list of categories passed as `profiles`

vars == <<mainpc, stage, idx, pvi, params, pgroups, pgExists, applied, specs,
          fetches, paramPage, wpc,
          seen, nexec, dbopen, curopen, granted, issued, log, account, loop,
          rs, label_rs, fi, listings, roundReq, delReq, pgDeleted, loaded,
          target, report, fate, faultStage, testSql, loadSql, reqProfiles>>

mainVars    == <<mainpc, stage, idx>>
pgVars      == <<pvi, params, pgroups, pgExists, applied, specs, fetches,
                 paramPage>>
workerVars  == <<wpc, seen, nexec, dbopen, curopen, granted, issued, loaded,
                 target, report>>
cleanupVars == <<loop, rs, label_rs, fi, listings, roundReq, delReq, pgDeleted>>
envVars     == <<fate, faultStage, testSql, loadSql, reqProfiles>>

----------------------------------------------------------------------------
(* Strings that the program formats or searches are sequences of characters *)

label == <<"t", "e", "s", "t", "i", "n", "g">>

DEFAULT_DATABASE == "testdata"
DEFAULT_USER == "testuser"

test_sql == <<"set profiling=1", "select 1=1">>

load_data_sql == <<"select 1=1">>

ALL_PROFILES == <<"CPU", "CONTEXT SWITCHES", "BLOCK IO", "IPC", "PAGE FAULTS",
                  "SWAPS", "SOURCE">>

PROFILES == ALL_PROFILES

utf8params == << <<"character_set_server", "utf8">>,
                 <<"character_set_client", "utf8">>,
                 <<"character_set_connection", "utf8">>,
                 <<"character_set_database", "utf8">>,
                 <<"character_set_results", "utf8">>,
                 <<"collation_server", "utf8_general_ci">>,
                 <<"collation_connection", "utf8_general_ci">> >>

\* the literal `parameters` of __main__
parameters == << <<>>,
                 << <<"innodb_buffer_pool_size", 100 * 1024 * 1024>>,
                    <<"max_heap_table_size", 100 * 1024 * 1024>>,
                    <<"tmp_table_size", 100 * 1024 * 1024>> >> >>

Variants == 0 .. (Len(parameters) - 1)

\* a format that loses the index
FormatIndexConstant(n) == <<"0">>

\* "{}".format(n) for a one-digit index
FormatIndex(n) == <<ToString(n)>>

\* "pg{}-{}".format(name_prefix, index)
pg_name(name_prefix, index) ==
    <<"p", "g">> \o name_prefix \o <<"-">> \o FormatIndex(index)

\* '{}-{}-{}'.format(label, number, param_grp)
inst_id(lbl, number, param_grp) ==
    lbl \o <<"-">> \o FormatIndex(number) \o <<"-">> \o param_grp

\* Python's `sub in s` on strings
Contains(sub, s) ==
    \E k \in 0 .. (Len(s) - Len(sub)) : SubSeq(s, k + 1, k + Len(sub)) = sub

\* the instance id of variant i as the three workers compute it
VariantId(i) == inst_id(label, i, pg_name(label, i))

\* instances of the account that the run did not create: one whose id does
\* not contain the label and one whose id happens to contain it
ForeignPlain == <<"p", "r", "o", "d">>
ForeignLabelled == <<"m", "y">> \o label
ForeignIds == {ForeignPlain, ForeignLabelled}

RunIds == {VariantId(i) : i \in Variants}
AllIds == RunIds \cup ForeignIds

\* the order in which the account lists its instances
ListOrder == <<VariantId(0), VariantId(1), ForeignLabelled, ForeignPlain>>

DeletableStatuses == {"available", "failed", "storage-full",
                      "incompatible-option-group", "incompatible-parameters",
                      "incompatible-restore", "incompatible-network"}

TransitionalStatuses == {"creating", "modifying", "deleting"}

Statuses == DeletableStatuses \cup TransitionalStatuses

Stages == {"create", "load", "test"}

Fates == {"available", "failed", "creating"}

FaultStages == {"none", "provision", "bootstrap", "load", "test"}

\* threading.Thread.isAlive()
isAlive(s, i) == wpc[s][i] \notin {"idle", "done", "raised"}

\* the value of the names the workers read
MayFail(i, s) == faultStage[i] = s

----------------------------------------------------------------------------
(* Initial state: the process has started, nothing has been created yet.    *)

PGNames == {pg_name(label, i) : i \in Variants}

FirstPc(s) == CASE s = "create" -> "c_request"
                [] s = "load"   -> "l_lookup"
                [] s = "test"   -> "t_lookup"

NextStage(s) == CASE s = "create" -> "load"
                  [] s = "load"   -> "test"
                  [] s = "test"   -> "cleanup"

\* no report has been built
NoReport == [sql |-> "", header_keys |-> <<>>, formats |-> <<>>,
             groups |-> <<>>, headers |-> <<>>]

InitCommon ==
    /\ pvi = 1
    /\ applied = [n \in PGNames |-> <<>>]
    /\ fetches = <<>>
    /\ paramPage = 0
    /\ seen = [i \in Variants |-> "none"]
    /\ nexec = [s \in Stages |-> [i \in Variants |-> 0]]
    /\ dbopen = [s \in Stages |-> [i \in Variants |-> FALSE]]
    /\ curopen = [s \in Stages |-> [i \in Variants |-> FALSE]]
    /\ issued = [i \in Variants |-> <<>>]
    /\ loaded = [i \in Variants |-> <<>>]
    /\ target = [s \in Stages |-> [i \in Variants |-> <<>>]]
    /\ report = NoReport
    /\ log = {}
    /\ loop = 0
    /\ rs = <<>>
    /\ label_rs = <<>>
    /\ fi = 1
    /\ listings = 0
    /\ roundReq = {}
    /\ delReq = {}
    /\ pgDeleted = {}

\* the workload, the load statements and the categories compiled into the
\* program: test_sql(), load_data_sql() and PROFILES
InitInputs ==
    /\ testSql = test_sql
    /\ loadSql = load_data_sql
    /\ reqProfiles = PROFILES

Init ==
    /\ InitCommon
    /\ InitInputs
    /\ mainpc = "utf8"
    /\ stage = "create"
    /\ idx = 0
    /\ specs = parameters
    /\ params = specs
    /\ pgroups = <<>>
    /\ pgExists = {}
    /\ wpc = [s \in Stages |-> [i \in Variants |-> "idle"]]
    /\ granted = [i \in Variants |-> FALSE]
    /\ account = [id \in AllIds |->
                    IF id = ForeignPlain THEN "available" ELSE "absent"]
    /\ fate \in [Variants -> Fates]
    /\ faultStage \in [Variants -> FaultStages]

----------------------------------------------------------------------------
(* __main__, lines 417-424: UTF-8 defaults and parameter groups             *)

\* the defaults put in front of the set instead of behind it
add_utf8_support_prepend(param_set) == utf8params \o param_set

\* add_utf8_support(param_set): param_set.extend(utf8params)
add_utf8_support(param_set) == param_set \o utf8params

\* for pg in parameters: add_utf8_support(pg)
MainUtf8 ==
    /\ mainpc = "utf8"
    /\ IF idx < Len(params)
         THEN /\ params' = [params EXCEPT ![idx + 1] = add_utf8_support(@)]
              /\ idx' = idx + 1
              /\ mainpc' = mainpc
         ELSE /\ params' = params
              /\ idx' = 0
              /\ mainpc' = "pg_create"
    /\ UNCHANGED <<stage, pvi, pgroups, pgExists, applied, log, account>>
    /\ UNCHANGED <<specs, fetches, paramPage>>
    /\ UNCHANGED <<workerVars, cleanupVars, envVars>>

\* create_param_groups, lines 158-161: the head of the for loop and
\* rds.create_parameter_group, which the remote system may reject
CreateParamGroup ==
    /\ mainpc = "pg_create"
    /\ IF idx < Len(params)
         THEN \E ok \in BOOLEAN :
                IF ok
                  THEN /\ pgExists' = pgExists \cup {pg_name(label, idx)}
                       /\ pvi' = 1
                       /\ mainpc' = "pg_set"
                       /\ UNCHANGED <<idx, stage>>
                  ELSE /\ mainpc' = "aborted"
                       /\ UNCHANGED <<pgExists, pvi, idx, stage>>
         ELSE /\ mainpc' = "start"
              /\ stage' = "create"
              /\ idx' = 0
              /\ UNCHANGED <<pgExists, pvi>>
    /\ UNCHANGED <<params, pgroups, applied, log, account>>
    /\ UNCHANGED <<specs, fetches, paramPage>>
    /\ UNCHANGED <<workerVars, cleanupVars, envVars>>

\* the catalog of a group's parameters comes in pages; a parameter lives on
\* one of the pages 1 .. MaxPage
MaxPage == 3

\* get_all_dbparameters without marker
NoMarker == 0

\* rds.get_all_dbparameters(pg_name, marker=m): the page after the one that
\* handed out marker m, with the marker for the page after it
get_all_dbparameters(name, m) == [page |-> m + 1, Marker |-> m + 1]

\* a second fetch that passes no marker
RetryMarkerNone(pg) == NoMarker

\* the marker of the second fetch: marker=pg.Marker   (line 154)
RetryMarker(pg) == pg.Marker

\* set_param, lines 148-156, for a parameter that lives on catalog page
\* `where`: it is applied from the first page, or from the page fetched with
\* the first page's marker; pg2[param] raises KeyError when it is not there
set_param(name, pval, where) ==
    LET pg  == get_all_dbparameters(name, NoMarker)
        pg2 == get_all_dbparameters(name, RetryMarker(pg))
    IN  /\ paramPage' = where
        /\ fetches' = IF where = pg.page
                        THEN <<NoMarker>>
                        ELSE <<NoMarker, RetryMarker(pg)>>
        /\ IF where = pg.page \/ where = pg2.page
             THEN /\ applied' = [applied EXCEPT ![name] = Append(@, pval)]
                  /\ pvi' = pvi + 1
                  /\ mainpc' = mainpc
             ELSE /\ mainpc' = "aborted"
                  /\ UNCHANGED <<applied, pvi>>

\* create_param_groups, lines 162-168: apply the next pair of the set, or
\* append the group's name to retVal when the set is exhausted
SetParams ==
    /\ mainpc = "pg_set"
    /\ IF pvi <= Len(params[idx + 1])
         THEN /\ \E where \in 1 .. MaxPage :
                    set_param(pg_name(label, idx), params[idx + 1][pvi], where)
              /\ UNCHANGED <<idx, pgroups>>
         ELSE /\ pgroups' = Append(pgroups, pg_name(label, idx))
              /\ idx' = idx + 1
              /\ mainpc' = "pg_create"
              /\ fetches' = <<>>
              /\ paramPage' = 0
              /\ UNCHANGED <<applied, pvi>>
    /\ UNCHANGED <<stage, params, pgExists, specs, log, account>>
    /\ UNCHANGED <<workerVars, cleanupVars, envVars>>

----------------------------------------------------------------------------
(* __main__, lines 426-454: the three fan-outs and their joins              *)

\* for i, pg in enumerate(pgroups): ... t.start()
MainStart ==
    /\ mainpc = "start"
    /\ IF idx < Len(pgroups)
         THEN /\ wpc' = [wpc EXCEPT ![stage][idx] = FirstPc(stage)]
              /\ idx' = idx + 1
              /\ mainpc' = mainpc
         ELSE /\ idx' = 0
              /\ mainpc' = "join"
              /\ wpc' = wpc
    /\ UNCHANGED <<stage, log, account>>
    /\ UNCHANGED <<seen, nexec, dbopen, curopen, granted, issued>>
    /\ UNCHANGED <<loaded, target, report>>
    /\ UNCHANGED <<pgVars, cleanupVars, envVars>>

\* a comprehension that goes on to the next worker without joining
JoinStepNoWait(alive, k) == <<"join", k + 1>>

\* one element of the comprehension [t.join() for t in workers if t.isAlive()]:
\* a live thread is joined, a dead one is passed over
JoinStep(alive, k) == IF alive THEN <<"joining", k>> ELSE <<"join", k + 1>>

\* the `if t.isAlive()` test of the comprehension, and leaving it
MainCheckAlive ==
    /\ mainpc = "join"
    /\ IF idx < Len(pgroups)
         THEN /\ mainpc' = JoinStep(isAlive(stage, idx), idx)[1]
              /\ idx' = JoinStep(isAlive(stage, idx), idx)[2]
              /\ stage' = stage
         ELSE /\ idx' = 0
              /\ IF NextStage(stage) = "cleanup"
                   THEN /\ mainpc' = "cleanup"
                        /\ stage' = stage
                   ELSE /\ mainpc' = "start"
                        /\ stage' = NextStage(stage)
    /\ UNCHANGED <<log, account>>
    /\ UNCHANGED <<pgVars, workerVars, cleanupVars, envVars>>

\* t.join() returns once the thread has ended
MainJoin ==
    /\ mainpc = "joining"
    /\ ~isAlive(stage, idx)
    /\ mainpc' = "join"
    /\ idx' = idx + 1
    /\ UNCHANGED <<stage, log, account>>
    /\ UNCHANGED <<pgVars, workerVars, cleanupVars, envVars>>

----------------------------------------------------------------------------
(* create_db, lines 185-219                                                 *)

SetPc(s, i, pc) == [wpc EXCEPT ![s][i] = pc]

\* outcomes a call of variant i may have in stage st: it can fail only in
\* the stage the environment has chosen for that variant's faults
Outcomes(i, st) == IF MayFail(i, st) THEN {TRUE, FALSE} ELSE {TRUE}

\* rds.create_dbinstance(id='{}-{}-{}'.format(label, number, param_grp), ...)
create_db_request(i) ==
    /\ wpc["create"][i] = "c_request"
    /\ \E ok \in Outcomes(i, "provision") :
         IF ok /\ account[inst_id(label, i, pgroups[i + 1])] = "absent"
           THEN /\ account' = [account EXCEPT
                                 ![inst_id(label, i, pgroups[i + 1])] = "creating"]
                /\ wpc' = SetPc("create", i, "c_update")
           ELSE /\ wpc' = SetPc("create", i, "raised")
                /\ account' = account
    /\ UNCHANGED <<seen, nexec, dbopen, curopen, granted, issued, log>>
    /\ target' = [target EXCEPT !["create"][i] =
                                     inst_id(label, i, pgroups[i + 1])]
    /\ UNCHANGED <<loaded, report>>
    /\ UNCHANGED <<mainVars, pgVars, cleanupVars, envVars>>

\* time.sleep(30); inst.update()   (lines 199-200)
create_db_update(i) ==
    /\ wpc["create"][i] = "c_update"
    /\ seen' = [seen EXCEPT ![i] = account[inst_id(label, i, pgroups[i + 1])]]
    /\ wpc' = SetPc("create", i, "c_while")
    /\ UNCHANGED <<nexec, dbopen, curopen, granted, issued, log, account>>
    /\ UNCHANGED <<loaded, target, report>>
    /\ UNCHANGED <<mainVars, pgVars, cleanupVars, envVars>>

\* a loop that waits only while the instance is being created
PollAgainWhileCreating(status) == status = "creating"

\* the condition of `while inst.status != 'available'`
PollAgain(status) == status # "available"

\* the while condition holds: the worker enters the body, time.sleep(30)
create_db_poll(i) ==
    /\ wpc["create"][i] = "c_while"
    /\ PollAgain(seen[i])
    /\ wpc' = SetPc("create", i, "c_sleep")
    /\ UNCHANGED <<seen, nexec, dbopen, curopen, granted, issued, log, account>>
    /\ UNCHANGED <<loaded, target, report>>
    /\ UNCHANGED <<mainVars, pgVars, cleanupVars, envVars>>

\* the rest of the body: inst.update(), and back to the condition
create_db_refresh(i) ==
    /\ wpc["create"][i] = "c_sleep"
    /\ seen' = [seen EXCEPT ![i] = account[inst_id(label, i, pgroups[i + 1])]]
    /\ wpc' = SetPc("create", i, "c_while")
    /\ UNCHANGED <<nexec, dbopen, curopen, granted, issued, log, account>>
    /\ UNCHANGED <<loaded, target, report>>
    /\ UNCHANGED <<mainVars, pgVars, cleanupVars, envVars>>

\* leaving the while loop
create_db_ready(i) ==
    /\ wpc["create"][i] = "c_while"
    /\ ~PollAgain(seen[i])
    /\ wpc' = SetPc("create", i, "c_connect")
    /\ UNCHANGED <<seen, nexec, dbopen, curopen, granted, issued, log, account>>
    /\ UNCHANGED <<loaded, target, report>>
    /\ UNCHANGED <<mainVars, pgVars, cleanupVars, envVars>>

\* db = connect(database='', username='root', ...)   (lines 204-205)
create_db_connect(i) ==
    /\ wpc["create"][i] = "c_connect"
    /\ \E ok \in Outcomes(i, "provision") :
         IF ok
           THEN /\ dbopen' = [dbopen EXCEPT !["create"][i] = TRUE]
                /\ wpc' = SetPc("create", i, "c_cursor")
           ELSE /\ wpc' = SetPc("create", i, "raised")
                /\ dbopen' = dbopen
    /\ UNCHANGED <<seen, nexec, curopen, granted, issued, log, account>>
    /\ UNCHANGED <<loaded, target, report>>
    /\ UNCHANGED <<mainVars, pgVars, cleanupVars, envVars>>

\* c = db.cursor()   (line 206, outside the try)
create_db_cursor(i) ==
    /\ wpc["create"][i] = "c_cursor"
    /\ \E ok \in Outcomes(i, "provision") :
         IF ok
           THEN /\ curopen' = [curopen EXCEPT !["create"][i] = TRUE]
                /\ wpc' = SetPc("create", i, "c_createdb")
           ELSE /\ wpc' = SetPc("create", i, "raised")
                /\ curopen' = curopen
    /\ UNCHANGED <<seen, nexec, dbopen, granted, issued, log, account>>
    /\ UNCHANGED <<loaded, target, report>>
    /\ UNCHANGED <<mainVars, pgVars, cleanupVars, envVars>>

\* c.execute("CREATE DATABASE ...")   (line 208)
create_db_createdb(i) ==
    /\ wpc["create"][i] = "c_createdb"
    /\ \E ok \in Outcomes(i, "bootstrap") :
         IF ok
           THEN /\ nexec' = [nexec EXCEPT !["create"][i] = @ + 1]
                /\ wpc' = SetPc("create", i, "c_grant")
           ELSE /\ wpc' = SetPc("create", i, "c_except")
                /\ nexec' = nexec
    /\ UNCHANGED <<seen, dbopen, curopen, granted, issued, log, account>>
    /\ UNCHANGED <<loaded, target, report>>
    /\ UNCHANGED <<mainVars, pgVars, cleanupVars, envVars>>

\* c.execute("grant all on ... identified by ...")   (lines 209-211)
create_db_grant(i) ==
    /\ wpc["create"][i] = "c_grant"
    /\ \E ok \in Outcomes(i, "bootstrap") :
         IF ok
           THEN /\ nexec' = [nexec EXCEPT !["create"][i] = @ + 1]
                /\ granted' = [granted EXCEPT ![i] = TRUE]
                /\ wpc' = SetPc("create", i, "c_finally")
           ELSE /\ wpc' = SetPc("create", i, "c_except")
                /\ UNCHANGED <<nexec, granted>>
    /\ UNCHANGED <<seen, dbopen, curopen, issued, log, account>>
    /\ UNCHANGED <<loaded, target, report>>
    /\ UNCHANGED <<mainVars, pgVars, cleanupVars, envVars>>

\* an except clause that runs the bootstrap statements again
create_db_handled_retry == "c_createdb"

\* where the worker goes after the except clause of create_db
create_db_handled == "c_finally"

\* except: logging.error("setting up {}, error {} {}")   (lines 212-215)
create_db_except(i) ==
    /\ wpc["create"][i] = "c_except"
    /\ log' = log \cup {<<"setting up", inst_id(label, i, pgroups[i + 1])>>}
    /\ wpc' = SetPc("create", i, create_db_handled)
    /\ UNCHANGED <<seen, nexec, dbopen, curopen, granted, issued, account>>
    /\ UNCHANGED <<loaded, target, report>>
    /\ UNCHANGED <<mainVars, pgVars, cleanupVars, envVars>>

\* finally: c.close(); db.close(); return inst   (lines 216-219)
create_db_finally(i) ==
    /\ wpc["create"][i] = "c_finally"
    /\ curopen' = [curopen EXCEPT !["create"][i] = FALSE]
    /\ dbopen' = [dbopen EXCEPT !["create"][i] = FALSE]
    /\ wpc' = SetPc("create", i, "done")
    /\ UNCHANGED <<seen, nexec, granted, issued, log, account>>
    /\ UNCHANGED <<loaded, target, report>>
    /\ UNCHANGED <<mainVars, pgVars, cleanupVars, envVars>>

create_db(i) ==
    \/ create_db_request(i)
    \/ create_db_update(i)
    \/ create_db_poll(i)
    \/ create_db_refresh(i)
    \/ create_db_ready(i)
    \/ create_db_connect(i)
    \/ create_db_cursor(i)
    \/ create_db_createdb(i)
    \/ create_db_grant(i)
    \/ create_db_except(i)
    \/ create_db_finally(i)

----------------------------------------------------------------------------
(* load_db, lines 276-294                                                   *)

\* rds.get_all_dbinstances(instance_id=...): raises when there is no such
\* instance
load_db_lookup(i) ==
    /\ wpc["load"][i] = "l_lookup"
    /\ \E ok \in Outcomes(i, "load") :
         IF ok /\ account[inst_id(label, i, pgroups[i + 1])] # "absent"
           THEN wpc' = SetPc("load", i, "l_connect")
           ELSE wpc' = SetPc("load", i, "raised")
    /\ UNCHANGED <<seen, nexec, dbopen, curopen, granted, issued, log, account>>
    /\ target' = [target EXCEPT !["load"][i] =
                                     inst_id(label, i, pgroups[i + 1])]
    /\ UNCHANGED <<loaded, report>>
    /\ UNCHANGED <<mainVars, pgVars, cleanupVars, envVars>>

\* connect() with the defaults testdata / testuser succeeds only on a server
\* that is reachable and on which create_db has created them
CanConnectAsUser(i) ==
    /\ account[inst_id(label, i, pgroups[i + 1])] = "available"
    /\ granted[i]

\* db = connect(hostname=inst[0].endpoint[0])   (line 281, outside the try)
load_db_connect(i) ==
    /\ wpc["load"][i] = "l_connect"
    /\ \E ok \in Outcomes(i, "load") :
         IF ok /\ CanConnectAsUser(i)
           THEN /\ dbopen' = [dbopen EXCEPT !["load"][i] = TRUE]
                /\ wpc' = SetPc("load", i, "l_cursor")
           ELSE /\ wpc' = SetPc("load", i, "raised")
                /\ dbopen' = dbopen
    /\ UNCHANGED <<seen, nexec, curopen, granted, issued, log, account>>
    /\ UNCHANGED <<loaded, target, report>>
    /\ UNCHANGED <<mainVars, pgVars, cleanupVars, envVars>>

\* c = db.cursor()   (line 282, outside the try)
load_db_cursor(i) ==
    /\ wpc["load"][i] = "l_cursor"
    /\ \E ok \in Outcomes(i, "load") :
         IF ok
           THEN /\ curopen' = [curopen EXCEPT !["load"][i] = TRUE]
                /\ wpc' = SetPc("load", i, "l_exec")
           ELSE /\ wpc' = SetPc("load", i, "raised")
                /\ curopen' = curopen
    /\ UNCHANGED <<seen, nexec, dbopen, granted, issued, log, account>>
    /\ UNCHANGED <<loaded, target, report>>
    /\ UNCHANGED <<mainVars, pgVars, cleanupVars, envVars>>

\* for s in sql: c.execute(s, None)   (lines 285-287)
load_db_exec(i) ==
    /\ wpc["load"][i] = "l_exec"
    /\ IF nexec["load"][i] < Len(loadSql)
         THEN \E ok \in Outcomes(i, "load") :
                /\ loaded' = [loaded EXCEPT ![i] = Append(@,
                       [stmt |-> loadSql[nexec["load"][i] + 1], ok |-> ok])]
                /\ IF ok
                     THEN /\ nexec' = [nexec EXCEPT !["load"][i] = @ + 1]
                          /\ wpc' = wpc
                     ELSE /\ wpc' = SetPc("load", i, "l_except")
                          /\ nexec' = nexec
         ELSE /\ wpc' = SetPc("load", i, "l_finally")
              /\ UNCHANGED <<nexec, loaded>>
    /\ UNCHANGED <<seen, dbopen, curopen, granted, issued, log, account>>
    /\ UNCHANGED <<target, report>>
    /\ UNCHANGED <<mainVars, pgVars, cleanupVars, envVars>>

\* an except clause inside the for loop: the loop goes on
load_db_handled_continue == "l_exec"

\* where the worker goes after the except clause of load_db: the try
\* statement encloses the whole for loop
load_db_handled == "l_finally"

\* except: logging.error("load data error on {} {} {}")   (lines 288-291)
load_db_except(i) ==
    /\ wpc["load"][i] = "l_except"
    /\ log' = log \cup {<<"load data error", inst_id(label, i, pgroups[i + 1])>>}
    /\ wpc' = SetPc("load", i, load_db_handled)
    /\ UNCHANGED <<seen, nexec, dbopen, curopen, granted, issued, account>>
    /\ UNCHANGED <<loaded, target, report>>
    /\ UNCHANGED <<mainVars, pgVars, cleanupVars, envVars>>

\* finally: c.close(); db.close()   (lines 292-294)
load_db_finally(i) ==
    /\ wpc["load"][i] = "l_finally"
    /\ curopen' = [curopen EXCEPT !["load"][i] = FALSE]
    /\ dbopen' = [dbopen EXCEPT !["load"][i] = FALSE]
    /\ wpc' = SetPc("load", i, "done")
    /\ UNCHANGED <<seen, nexec, granted, issued, log, account>>
    /\ UNCHANGED <<loaded, target, report>>
    /\ UNCHANGED <<mainVars, pgVars, cleanupVars, envVars>>

load_db(i) ==
    \/ load_db_lookup(i)
    \/ load_db_connect(i)
    \/ load_db_cursor(i)
    \/ load_db_exec(i)
    \/ load_db_except(i)
    \/ load_db_finally(i)

----------------------------------------------------------------------------
(* perform_rds_test, lines 385-399, and perform_test, lines 345-372         *)

\* ",".join(profiles)   (line 346)
RECURSIVE Join(_)
Join(list) ==
    IF list = <<>> THEN <<>>
    ELSE IF Len(list) = 1 THEN list
    ELSE <<Head(list), ",">> \o Join(Tail(list))

\* detail queries for every statement of the workload
ProfileQueriesAll(sql, profiles) ==
    [q \in 1 .. Len(sql) |-> <<"show profile", Join(profiles), q - 1>>]

\* for i, s in enumerate(sql): if i == 0: continue;
\* c.execute("show profile {} for query {}".format(profile_list, i))
ProfileQueries(sql, profiles) ==
    [q \in 1 .. (Len(sql) - 1) |-> <<"show profile", Join(profiles), q>>]

\* the statements perform_test passes to c.execute, in order: the workload,
\* "show profiles", one "show profile <list> for query i" for each statement
\* but the first, and "set profiling=0"
perform_test_statements(sql, profiles) ==
    [k \in 1 .. Len(sql) |-> <<"execute", sql[k]>>]
      \o << <<"execute", "show profiles">> >>
      \o ProfileQueries(sql, profiles)
      \o << <<"execute", "set profiling=0">> >>

\* profile_headers, lines 66-77: per category <<labels, format specs>>
profile_headers ==
    [a \in {"Always"} \cup {ALL_PROFILES[k] : k \in 1 .. Len(ALL_PROFILES)} |->
       CASE a = "Always" -> << <<"", "Status", "Duration">>, <<"{:20}", "{:>10}">> >>
         [] a = "CPU" -> << <<"", "CPU User", "CPU System">>, <<"{:>10}", "{:>11}">> >>
         [] a = "CONTEXT SWITCHES" ->
              << <<"Context", "voluntary", "involuntary">>, <<"{:>10}", "{:>12}">> >>
         [] a = "BLOCK IO" -> << <<"Block", "ops in", "ops out">>, <<"{:>7}", "{:>8}">> >>
         [] a = "IPC" -> << <<"Messages", "sent", "received">>, <<"{:>9}", "{:>9}">> >>
         [] a = "PAGE FAULTS" ->
              << <<"Page faults", "major", "minor">>, <<"{:>12}", "{:>12}">> >>
         [] a = "SWAPS" -> << <<"", "Swaps">>, <<"{:>6}">> >>
         [] a = "SOURCE" ->
              << <<"", "Source function", "Source file", "Source line">>,
                 <<"{:>18}", "{:>15}", "{:>12}">> >>]

\* what map(lambda a: acc.extend(f(a)), keys) leaves in acc
RECURSIVE ExtendAll(_, _)
ExtendAll(f, keys) ==
    IF keys = <<>> THEN <<>> ELSE f[Head(keys)] \o ExtendAll(f, Tail(keys))

\* profile_report, lines 310-326: the keys, the format specs and the two
\* header lines built for the requested categories
profile_report(s, categories) ==
    LET header_keys == <<"Always">> \o categories
        K == {header_keys[k] : k \in 1 .. Len(header_keys)}
    IN  [sql |-> s,
         header_keys |-> header_keys,
         formats |-> ExtendAll([a \in K |-> profile_headers[a][2]], header_keys),
         groups |-> ExtendAll([a \in K |->
                       [n \in 1 .. Len(profile_headers[a][2]) |->
                           profile_headers[a][1][1]]], header_keys),
         headers |-> ExtendAll([a \in K |-> Tail(profile_headers[a][1])],
                               header_keys)]

\* rds.get_all_dbinstances(instance_id=...)   (line 388, outside the try)
perform_rds_test_lookup(i) ==
    /\ wpc["test"][i] = "t_lookup"
    /\ \E ok \in Outcomes(i, "test") :
         IF ok /\ account[inst_id(label, i, pgroups[i + 1])] # "absent"
           THEN wpc' = SetPc("test", i, "t_connect")
           ELSE wpc' = SetPc("test", i, "raised")
    /\ UNCHANGED <<seen, nexec, dbopen, curopen, granted, issued, log, account>>
    /\ target' = [target EXCEPT !["test"][i] =
                                     inst_id(label, i, pgroups[i + 1])]
    /\ UNCHANGED <<loaded, report>>
    /\ UNCHANGED <<mainVars, pgVars, cleanupVars, envVars>>

\* db = connect(hostname=inst[0].endpoint[0])   (line 391).  When connect
\* raises, `db` is unbound: the except clause raises on db.errno() before
\* logging.error is called, and the finally clause raises on db.close().
perform_rds_test_connect(i) ==
    /\ wpc["test"][i] = "t_connect"
    /\ \E ok \in Outcomes(i, "test") :
         IF ok /\ CanConnectAsUser(i)
           THEN /\ dbopen' = [dbopen EXCEPT !["test"][i] = TRUE]
                /\ wpc' = SetPc("test", i, "t_cursor")
           ELSE /\ wpc' = SetPc("test", i, "raised")
                /\ dbopen' = dbopen
    /\ UNCHANGED <<seen, nexec, curopen, granted, issued, log, account>>
    /\ UNCHANGED <<loaded, target, report>>
    /\ UNCHANGED <<mainVars, pgVars, cleanupVars, envVars>>

\* perform_test: c = db.cursor()   (line 345, outside perform_test's try)
perform_test_cursor(i) ==
    /\ wpc["test"][i] = "t_cursor"
    /\ \E ok \in Outcomes(i, "test") :
         IF ok
           THEN /\ curopen' = [curopen EXCEPT !["test"][i] = TRUE]
                /\ wpc' = SetPc("test", i, "t_exec")
           ELSE /\ wpc' = SetPc("test", i, "t_except")
                /\ curopen' = curopen
    /\ UNCHANGED <<seen, nexec, dbopen, granted, issued, log, account>>
    /\ UNCHANGED <<loaded, target, report>>
    /\ UNCHANGED <<mainVars, pgVars, cleanupVars, envVars>>

\* perform_test: the next c.execute of lines 349-368; a failure runs the
\* finally clause (c.close()) and re-raises into perform_rds_test
perform_test_exec(i) ==
    /\ wpc["test"][i] = "t_exec"
    /\ IF nexec["test"][i] < Len(perform_test_statements(testSql, reqProfiles))
         THEN \E ok \in Outcomes(i, "test") :
                LET stmt == perform_test_statements(testSql, reqProfiles)
                                [nexec["test"][i] + 1]
                IN  IF ok
                      THEN /\ nexec' = [nexec EXCEPT !["test"][i] = @ + 1]
                           /\ issued' = [issued EXCEPT ![i] = Append(@, stmt)]
                           /\ report' = IF stmt[1] = "show profile"
                                          THEN profile_report(testSql[stmt[3] + 1],
                                                              reqProfiles)
                                          ELSE report
                           /\ UNCHANGED <<wpc, curopen>>
                      ELSE /\ curopen' = [curopen EXCEPT !["test"][i] = FALSE]
                           /\ wpc' = SetPc("test", i, "t_except")
                           /\ UNCHANGED <<nexec, issued, report>>
         ELSE /\ curopen' = [curopen EXCEPT !["test"][i] = FALSE]
              /\ wpc' = SetPc("test", i, "t_finally")
              /\ UNCHANGED <<nexec, issued, report>>
    /\ UNCHANGED <<seen, dbopen, granted, log, account>>
    /\ UNCHANGED <<loaded, target>>
    /\ UNCHANGED <<mainVars, pgVars, cleanupVars, envVars>>

\* except Exception: logging.error("test error on {} {} {}"); raise
perform_rds_test_except(i) ==
    /\ wpc["test"][i] = "t_except"
    /\ log' = log \cup {<<"test error", inst_id(label, i, pgroups[i + 1])>>}
    /\ wpc' = SetPc("test", i, "t_finally_raise")
    /\ UNCHANGED <<seen, nexec, dbopen, curopen, granted, issued, account>>
    /\ UNCHANGED <<loaded, target, report>>
    /\ UNCHANGED <<mainVars, pgVars, cleanupVars, envVars>>

\* finally: db.close()   (lines 398-399), then return or re-raise
perform_rds_test_finally(i) ==
    /\ wpc["test"][i] \in {"t_finally", "t_finally_raise"}
    /\ dbopen' = [dbopen EXCEPT !["test"][i] = FALSE]
    /\ wpc' = SetPc("test", i,
                    IF wpc["test"][i] = "t_finally" THEN "done" ELSE "raised")
    /\ UNCHANGED <<seen, nexec, curopen, granted, issued, log, account>>
    /\ UNCHANGED <<loaded, target, report>>
    /\ UNCHANGED <<mainVars, pgVars, cleanupVars, envVars>>

perform_rds_test(i) ==
    \/ perform_rds_test_lookup(i)
    \/ perform_rds_test_connect(i)
    \/ perform_test_cursor(i)
    \/ perform_test_exec(i)
    \/ perform_rds_test_except(i)
    \/ perform_rds_test_finally(i)

----------------------------------------------------------------------------
(* cleanup, lines 243-264                                                   *)

MaxRounds == 10

\* rds.get_all_dbinstances(): the instances of the account with their status
RECURSIVE Listing(_, _)
Listing(acc, order) ==
    IF order = <<>> THEN <<>>
    ELSE (IF acc[Head(order)] = "absent" THEN <<>>
          ELSE <<[id |-> Head(order), status |-> acc[Head(order)]]>>)
         \o Listing(acc, Tail(order))

\* a comprehension without its filter
MatchesLabelAny(lbl, d) == TRUE

\* the test `label in d.id` of the list comprehension
MatchesLabel(lbl, d) == Contains(lbl, d.id)

\* [d for d in rs if label in d.id]
RECURSIVE FilterLabel(_, _)
FilterLabel(lbl, listing) ==
    IF listing = <<>> THEN <<>>
    ELSE (IF MatchesLabel(lbl, Head(listing)) THEN <<Head(listing)>> ELSE <<>>)
         \o FilterLabel(lbl, Tail(listing))

\* the statuses in which cleanup requests the deletion of an instance
CleanupStatuses == {"available", "failed", "storage-full",
                    "incompatible-option-group", "incompatible-parameters",
                    "incompatible-restore", "incompatible-network"}

\* a loop condition that admits one round too many
KeepLoopingOffByOne(n, matching) == n <= MaxRounds /\ matching # <<>>

\* the condition of `while loop < 10 and label_rs`
KeepLooping(n, matching) == n < MaxRounds /\ matching # <<>>

\* loop += 1
NextLoop(n) == n + 1

\* a timeout test that never fires
TimedOutOffByOne(n, listing, matching) == n > MaxRounds /\ listing # <<>>

\* the condition of `if loop == 10 and rs`
TimedOut(n, listing, matching) == n = MaxRounds /\ listing # <<>>

\* the value True that label_rs holds before the first listing: like every
\* non-empty list it is truthy, and it is never iterated
TrueValue == <<[id |-> <<>>, status |-> "True"]>>

\* entering cleanup(label, pgroups): loop = 0; label_rs = True
cleanup_enter ==
    /\ mainpc = "cleanup"
    /\ loop' = 0
    /\ label_rs' = TrueValue
    /\ mainpc' = "k_while"
    /\ UNCHANGED <<stage, idx, rs, fi, listings, roundReq, delReq, pgDeleted,
                   log, account>>
    /\ UNCHANGED <<pgVars, workerVars, envVars>>

\* the head of the while loop and lines 247-248
cleanup_while ==
    /\ mainpc = "k_while"
    /\ IF KeepLooping(loop, label_rs)
         THEN /\ rs' = Listing(account, ListOrder)
              /\ label_rs' = FilterLabel(label, Listing(account, ListOrder))
              /\ listings' = listings + 1
              /\ roundReq' = {}
              /\ fi' = 1
              /\ mainpc' = "k_for"
         ELSE /\ mainpc' = "k_check"
              /\ UNCHANGED <<rs, label_rs, listings, roundReq, fi>>
    /\ UNCHANGED <<stage, idx, loop, delReq, pgDeleted, log, account>>
    /\ UNCHANGED <<pgVars, workerVars, envVars>>

\* for inst in label_rs: if inst.status in [...]: rds.delete_dbinstance(...)
cleanup_for ==
    /\ mainpc = "k_for"
    /\ IF fi <= Len(label_rs)
         THEN /\ fi' = fi + 1
              /\ mainpc' = mainpc
              /\ IF label_rs[fi].status \in CleanupStatuses
                   THEN /\ account' = [account EXCEPT
                                         ![label_rs[fi].id] = "deleting"]
                        /\ roundReq' = roundReq \cup {label_rs[fi].id}
                        /\ delReq' = delReq \cup {label_rs[fi].id}
                   ELSE UNCHANGED <<account, roundReq, delReq>>
         ELSE /\ mainpc' = "k_sleep"
              /\ UNCHANGED <<fi, account, roundReq, delReq>>
    /\ UNCHANGED <<stage, idx, loop, rs, label_rs, listings, pgDeleted, log>>
    /\ UNCHANGED <<pgVars, workerVars, envVars>>

\* if label_rs: time.sleep(60)
\* loop += 1
cleanup_sleep ==
    /\ mainpc = "k_sleep"
    /\ loop' = NextLoop(loop)
    /\ mainpc' = "k_while"
    /\ UNCHANGED <<stage, idx, rs, label_rs, fi, listings, roundReq, delReq,
                   pgDeleted, log, account>>
    /\ UNCHANGED <<pgVars, workerVars, envVars>>

\* if loop == 10 and rs: logging.error(...) else: ...
cleanup_check ==
    /\ mainpc = "k_check"
    /\ IF TimedOut(loop, rs, label_rs)
         THEN /\ log' = log \cup {<<"timed out", label>>}
              /\ mainpc' = "done"
              /\ fi' = fi
         ELSE /\ mainpc' = "k_delpg"
              /\ fi' = 1
              /\ log' = log
    /\ UNCHANGED <<stage, idx, loop, rs, label_rs, listings, roundReq, delReq,
                   pgDeleted, account>>
    /\ UNCHANGED <<pgVars, workerVars, envVars>>

\* for pg in pgroups: rds.delete_parameter_group(pg)
cleanup_delete_pg ==
    /\ mainpc = "k_delpg"
    /\ IF fi <= Len(pgroups)
         THEN /\ pgDeleted' = pgDeleted \cup {pgroups[fi]}
              /\ pgExists' = pgExists \ {pgroups[fi]}
              /\ fi' = fi + 1
              /\ mainpc' = mainpc
         ELSE /\ mainpc' = "done"
              /\ UNCHANGED <<pgDeleted, pgExists, fi>>
    /\ UNCHANGED <<stage, idx, loop, rs, label_rs, listings, roundReq, delReq,
                   log, account>>
    /\ UNCHANGED <<pvi, params, pgroups, applied, specs, fetches, paramPage>>
    /\ UNCHANGED <<workerVars, envVars>>

cleanup ==
    \/ cleanup_enter
    \/ cleanup_while
    \/ cleanup_for
    \/ cleanup_sleep
    \/ cleanup_check
    \/ cleanup_delete_pg

----------------------------------------------------------------------------
(* The remote system                                                        *)

\* a new instance leaves 'creating' for the status the remote system takes
\* it to; with fate 'creating' it stays there
EnvSettle(i) ==
    /\ account[VariantId(i)] = "creating"
    /\ fate[i] # "creating"
    /\ account' = [account EXCEPT ![VariantId(i)] = fate[i]]
    /\ UNCHANGED <<log>>
    /\ UNCHANGED <<mainVars, pgVars, workerVars, cleanupVars, envVars>>

\* an instance whose deletion was requested disappears from the account
EnvGone(id) ==
    /\ account[id] = "deleting"
    /\ account' = [account EXCEPT ![id] = "absent"]
    /\ UNCHANGED <<log>>
    /\ UNCHANGED <<mainVars, pgVars, workerVars, cleanupVars, envVars>>

Env ==
    \/ \E i \in Variants : EnvSettle(i)
    \/ \E id \in AllIds : EnvGone(id)

----------------------------------------------------------------------------
(* The batch run                                                            *)

Main ==
    \/ MainUtf8
    \/ CreateParamGroup
    \/ SetParams
    \/ MainStart
    \/ MainCheckAlive
    \/ MainJoin
    \/ cleanup

Worker(i) ==
    \/ create_db(i)
    \/ load_db(i)
    \/ perform_rds_test(i)

Next ==
    \/ Main
    \/ \E i \in Variants : Worker(i)
    \/ Env

Spec == Init /\ [][Next]_vars

\* cleanup(label, pgroups) on its own, called on an account in any condition
CleanupInit ==
    /\ InitCommon
    /\ InitInputs
    /\ mainpc = "cleanup"
    /\ stage = "test"
    /\ idx = 0
    /\ specs = parameters
    /\ params = [k \in 1 .. Len(parameters) |-> add_utf8_support(parameters[k])]
    /\ pgroups = [k \in 1 .. Len(parameters) |-> pg_name(label, k - 1)]
    /\ pgExists = PGNames
    /\ wpc = [s \in Stages |-> [i \in Variants |-> "done"]]
    /\ granted = [i \in Variants |-> TRUE]
    /\ account \in [AllIds -> Statuses \cup {"absent"}]
    /\ account[VariantId(1)] \in {"absent", "available", "creating"}
    /\ account[ForeignLabelled] \in {"absent", "failed", "modifying"}
    /\ account[ForeignPlain] \in {"absent", "available", "deleting"}
    /\ fate = [i \in Variants |-> "available"]
    /\ faultStage = [i \in Variants |-> "none"]

CleanupNext == cleanup \/ Env

CleanupSpec == CleanupInit /\ [][CleanupNext]_vars

\* cleanup's own steps are taken; the remote system owes nothing
FairCleanupSpec == CleanupSpec /\ WF_vars(cleanup)

\* add_utf8_support and create_param_groups on their own, for variant
\* specifications of up to MaxDeltas pairs
MaxDeltas == 2

DeltaPool == {<<"innodb_buffer_pool_size", 100 * 1024 * 1024>>,
              <<"max_heap_table_size", 100 * 1024 * 1024>>}

SpecPool == UNION {[1 .. n -> DeltaPool] : n \in 0 .. MaxDeltas}

ParamInit ==
    /\ InitCommon
    /\ InitInputs
    /\ mainpc = "utf8"
    /\ stage = "create"
    /\ idx = 0
    /\ specs \in [1 .. Len(parameters) -> SpecPool]
    /\ params = specs
    /\ pgroups = <<>>
    /\ pgExists = {}
    /\ wpc = [s \in Stages |-> [i \in Variants |-> "idle"]]
    /\ granted = [i \in Variants |-> FALSE]
    /\ account = [id \in AllIds |-> "absent"]
    /\ fate = [i \in Variants |-> "available"]
    /\ faultStage = [i \in Variants |-> "none"]

ParamNext == MainUtf8 \/ CreateParamGroup \/ SetParams

ParamSpec == ParamInit /\ [][ParamNext]_vars

\* load_db and perform_rds_test on their own, called for variant 0 on an
\* account in which create_db has done its work for every variant
MaxStatements == 3

MaxCategories == 2

StatementPool == {"select 1=1", "select 2=2"}

\* workloads that begin, by convention, with the profiling-enable statement
Workloads ==
    {<<"set profiling=1">> \o t :
        t \in UNION {[1 .. n -> StatementPool] : n \in 0 .. (MaxStatements - 1)}}

LoadLists == UNION {[1 .. n -> StatementPool] : n \in 0 .. MaxStatements}

ProfileSet == {ALL_PROFILES[k] : k \in 1 .. Len(ALL_PROFILES)}

\* requests of up to MaxCategories distinct categories, in any order
Requests ==
    {r \in UNION {[1 .. n -> ProfileSet] : n \in 0 .. MaxCategories} :
        \A k, l \in 1 .. Len(r) : k # l => r[k] # r[l]}

StageInit(st) ==
    /\ InitCommon
    /\ mainpc = "joining"
    /\ stage = st
    /\ idx = 0
    /\ specs = parameters
    /\ params = [k \in 1 .. Len(parameters) |-> add_utf8_support(parameters[k])]
    /\ pgroups = [k \in 1 .. Len(parameters) |-> pg_name(label, k - 1)]
    /\ pgExists = PGNames
    /\ wpc = [s \in Stages |-> [i \in Variants |->
                IF s = st
                  THEN (IF i = 0 THEN FirstPc(st) ELSE "done")
                  ELSE (IF s = "create" \/ st = "test" THEN "done" ELSE "idle")]]
    /\ granted = [i \in Variants |-> TRUE]
    /\ account = [id \in AllIds |->
                    IF id \in RunIds THEN "available" ELSE "absent"]
    /\ fate = [i \in Variants |-> "available"]
    /\ faultStage \in [Variants -> {"none", st}]
    /\ faultStage[1] = "none"

LoadInit ==
    /\ StageInit("load")
    /\ loadSql \in LoadLists
    /\ testSql = test_sql
    /\ reqProfiles = PROFILES

LoadNext == load_db(0)

LoadSpec == LoadInit /\ [][LoadNext]_vars

TestInit ==
    /\ StageInit("test")
    /\ loadSql = load_data_sql
    /\ testSql \in Workloads
    /\ reqProfiles \in Requests

TestNext == perform_rds_test(0)

TestSpec == TestInit /\ [][TestNext]_vars

\* threads and the main thread are scheduled, calls return, and the remote
\* system completes the transitions it has begun
FairSpec ==
    /\ Spec
    /\ WF_vars(Main)
    /\ \A i \in Variants : WF_vars(Worker(i))
    /\ \A i \in Variants : WF_vars(EnvSettle(i))

----------------------------------------------------------------------------
(* Properties                                                               *)

StageRank(s) == CASE s = "create" -> 1
                  [] s = "load"   -> 2
                  [] s = "test"   -> 3

Executing(s, i) == wpc[s][i] \notin {"idle", "done", "raised"}

Started(s, i) == wpc[s][i] # "idle"

InCleanup == mainpc \in {"cleanup", "k_while", "k_for", "k_sleep", "k_check",
                         "k_delpg", "done"}

\* C1: stage barrier.  While a worker of a stage is still executing, no
\* worker of a later stage has started and the main thread is not in
\* cleanup, whether the workers of the earlier stage return or raise.
C1_StageBarrier ==
    /\ \A s, t \in Stages : \A i, j \in Variants :
         (StageRank(s) < StageRank(t) /\ Executing(s, i)) => ~Started(t, j)
    /\ \A s \in Stages : \A i \in Variants : Executing(s, i) => ~InCleanup

\* a create_db worker has raised and a load_db worker of another variant runs
C1_Witness ==
    \E i, j \in Variants :
        /\ i # j
        /\ wpc["create"][i] = "raised"
        /\ Executing("load", j)

BootstrapFailed(i) == <<"setting up", VariantId(i)>> \in log

RanLoadAndTest(j) ==
    /\ wpc["load"][j] = "done"
    /\ nexec["load"][j] = Len(load_data_sql)
    /\ wpc["test"][j] = "done"
    /\ nexec["test"][j] = Len(perform_test_statements(test_sql, PROFILES))

FaultFree(j) == fate[j] = "available" /\ faultStage[j] = "none"

\* C2: bootstrap-failure isolation.  Once the bootstrap of variant i has
\* failed, every other variant whose instance becomes available and whose
\* calls all succeed goes on to execute its load stage and its test stage.
C2_BootstrapIsolation ==
    \A i, j \in Variants :
        (i # j) => ((BootstrapFailed(i) /\ FaultFree(j)) ~> RanLoadAndTest(j))

\* the bootstrap of one variant failed and another variant loaded and tested
C2_Witness ==
    \E i, j \in Variants :
        i # j /\ BootstrapFailed(i) /\ FaultFree(j) /\ RanLoadAndTest(j)

ErroredInCreate(i) == wpc["create"][i] = "raised" \/ BootstrapFailed(i)

ErroredInLoad(i) ==
    \/ wpc["load"][i] = "raised"
    \/ <<"load data error", VariantId(i)>> \in log

\* C3: exclusion of errored variants.  No load_db and no perform_rds_test
\* worker is launched for a variant that failed in create_db, and no
\* perform_rds_test worker for a variant that failed in load_db.
C3_Exclusion ==
    \A i \in Variants :
        /\ ErroredInCreate(i) => (~Started("load", i) /\ ~Started("test", i))
        /\ ErroredInLoad(i) => ~Started("test", i)

ParamGroupsCreated == mainpc \notin {"utf8", "pg_create", "pg_set", "aborted"}

\* C4: batch progress under any single-variant error.  Once the fan-outs
\* begin, every variant whose own instance becomes available and whose own
\* calls succeed eventually runs its load and test stages, whatever happens
\* to the other variants and their instances.
C4_BatchProgress ==
    \A j \in Variants : (ParamGroupsCreated /\ FaultFree(j)) ~> RanLoadAndTest(j)

\* C5: bounded reaper.  cleanup lists the instances at most 10 times and
\* then terminates, whatever the remote system does with the instances.
C5_BoundedReaper == [](listings <= 10) /\ <>(mainpc = "done")

\* cleanup ended after ten listings with a matching instance still listed
C5_Witness ==
    /\ mainpc = "done"
    /\ listings = 10
    /\ label_rs # <<>>
    /\ \E k \in 1 .. Len(label_rs) : label_rs[k].status = "modifying"

PGroupSet == {pgroups[k] : k \in 1 .. Len(pgroups)}

\* C6: early stop and parameter-group deletion.  When cleanup has ended and
\* its last listing (whichever round it was) contained no instance matching
\* the label, every supplied parameter group has been deleted, whether or
\* not other instances exist.
C6_EarlyStopDeletesGroups ==
    (mainpc = "done" /\ label_rs = <<>>) => pgDeleted = PGroupSet

LabelListed ==
    \E k \in 1 .. Len(rs) : Contains(label, rs[k].id)

\* C7: parameter groups are deleted only if the most recent listing held no
\* instance matching the label; when the ten rounds end with such instances
\* still listed, the error is logged and no parameter group is deleted.
C7_NoDeleteUnderLiveInstance ==
    /\ (pgDeleted # {} \/ mainpc = "k_delpg") => ~LabelListed
    /\ (mainpc = "done" /\ loop = 10 /\ LabelListed)
          => (<<"timed out", label>> \in log /\ pgDeleted = {})

\* the ten rounds ended with a matching instance listed and the error logged
C7_Witness ==
    /\ mainpc = "done"
    /\ loop = 10
    /\ LabelListed
    /\ <<"timed out", label>> \in log

DeleteTargets(listing) ==
    {listing[k].id : k \in {n \in 1 .. Len(listing) :
        /\ Contains(label, listing[n].id)
        /\ listing[n].status \in {"available", "failed", "storage-full",
                                  "incompatible-option-group",
                                  "incompatible-parameters",
                                  "incompatible-restore",
                                  "incompatible-network"}}}

\* C8: reaper delete targets.  In every round the deletions requested are
\* exactly the listed instances whose id contains the label and whose status
\* is deletable; none is requested for another instance.
C8_DeleteTargets ==
    /\ mainpc = "k_for" => roundReq \subseteq DeleteTargets(rs)
    /\ mainpc = "k_sleep" => roundReq = DeleteTargets(rs)
    /\ \A id \in delReq : Contains(label, id)

\* a round that deleted one matching instance, passed over a matching one in
\* a transitional status, and left alone an instance without the label
C8_Witness ==
    /\ mainpc = "k_sleep"
    /\ roundReq # {}
    /\ \E k \in 1 .. Len(rs) :
         Contains(label, rs[k].id) /\ rs[k].status \in {"creating", "modifying"}
    /\ \E k \in 1 .. Len(rs) :
         ~Contains(label, rs[k].id) /\ rs[k].status = "available"

\* C9: unconditional teardown.  In every run the cleanup phase is eventually
\* entered.
C9_TeardownReached == <>InCleanup

\* C10: readiness poll termination.  A provisioning worker whose last
\* refresh returned the terminal status 'failed' has stopped polling: its
\* next step is not another sleep and refresh.
C10_PollStopsOnFailed ==
    \A i \in Variants : seen[i] = "failed" => ~ENABLED create_db_poll(i)

Ended(s, i) == wpc[s][i] \in {"done", "raised"}

\* C11: connection closure on every exit path.  A worker of any stage that
\* has ended, by returning or by raising, holds no open database connection.
C11_ConnectionsClosed ==
    \A s \in Stages : \A i \in Variants : Ended(s, i) => ~dbopen[s][i]

\* C12: sibling isolation in create_param_groups.  When the creation of a
\* parameter group, or the application of one of its parameters, fails for
\* the variant at index idx, the groups of all other variants are still
\* created and returned.
C12_SiblingGroupsCreated ==
    mainpc = "aborted" =>
        \A j \in Variants \ {idx} :
            /\ pg_name(label, j) \in pgExists
            /\ pg_name(label, j) \in PGroupSet

\* C13: single pagination retry.  set_param fetches the catalog once when
\* the parameter is on the first page; otherwise it fetches exactly once
\* more, with the first page's marker, and applies the value when the
\* parameter is on that page; when it is on neither page the error ends
\* create_param_groups after those two fetches.
C13_SinglePaginationRetry ==
    /\ paramPage = 1 =>
         /\ fetches = <<0>>
         /\ mainpc = "pg_set"
         /\ applied[pg_name(label, idx)][pvi - 1] = params[idx + 1][pvi - 1]
    /\ paramPage = 2 =>
         /\ fetches = <<0, 1>>
         /\ mainpc = "pg_set"
         /\ applied[pg_name(label, idx)][pvi - 1] = params[idx + 1][pvi - 1]
    /\ paramPage > 2 =>
         /\ fetches = <<0, 1>>
         /\ mainpc = "aborted"
         /\ Len(applied[pg_name(label, idx)]) = pvi - 1

\* a parameter was applied from the page fetched with the first page's marker
C13_Witness ==
    /\ paramPage = 2
    /\ fetches = <<0, 1>>
    /\ Len(applied[pg_name(label, idx)]) = pvi - 1
    /\ pvi > 1

UTF8Defaults == << <<"character_set_server", "utf8">>,
                   <<"character_set_client", "utf8">>,
                   <<"character_set_connection", "utf8">>,
                   <<"character_set_database", "utf8">>,
                   <<"character_set_results", "utf8">>,
                   <<"collation_server", "utf8_general_ci">>,
                   <<"collation_connection", "utf8_general_ci">> >>

\* C14: applied parameter values.  When add_utf8_support and
\* create_param_groups have completed without error, one parameter group per
\* specification has been returned, in input order, and the applications made
\* to group i are the pairs of specification i in order followed by the seven
\* UTF-8 defaults (only the defaults for an empty specification).
C14_AppliedValues ==
    ParamGroupsCreated =>
        /\ Len(pgroups) = Len(specs)
        /\ \A k \in 1 .. Len(specs) :
             /\ pgroups[k] = pg_name(label, k - 1)
             /\ pgroups[k] \in pgExists \cup pgDeleted
             /\ applied[pgroups[k]] = specs[k] \o UTF8Defaults

\* both groups were returned, one for an empty specification and one for a
\* specification of two pairs
C14_Witness ==
    /\ ParamGroupsCreated
    /\ \E k \in 1 .. Len(specs) : specs[k] = <<>>
    /\ \E k \in 1 .. Len(specs) : Len(specs[k]) = 2 /\ specs[k][1] # specs[k][2]

\* the requested categories in the order in which the engine returns them
FixedOrder(req) ==
    SelectSeq(ALL_PROFILES, LAMBDA c : \E k \in 1 .. Len(req) : req[k] = c)

RECURSIVE FormatSpecCount(_)
FormatSpecCount(keys) ==
    IF keys = <<>> THEN 0
    ELSE (CASE Head(keys) = "SWAPS" -> 1
            [] Head(keys) = "SOURCE" -> 3
            [] OTHER -> 2) + FormatSpecCount(Tail(keys))

\* C15: report category order.  Whatever the order of the request, the
\* header keys of a report are 'Always' followed by the requested categories
\* in the fixed order CPU, CONTEXT SWITCHES, BLOCK IO, IPC, PAGE FAULTS,
\* SWAPS, SOURCE, the 'show profile' queries list them in that order, and
\* the header has as many columns as 'Always' and the requested categories
\* have format specs.
C15_FixedCategoryOrder ==
    /\ report # NoReport =>
         /\ report.header_keys = <<"Always">> \o FixedOrder(reqProfiles)
         /\ Len(report.headers) = FormatSpecCount(<<"Always">> \o reqProfiles)
         /\ Len(report.groups) = Len(report.headers)
    /\ \A i \in Variants : \A k \in 1 .. Len(issued[i]) :
         issued[i][k][1] = "show profile"
            => issued[i][k][2] = Join(FixedOrder(reqProfiles))

\* C16: profile collection sequence.  A perform_test that succeeded has
\* executed the workload statements in order, then "show profiles" once, then
\* one detail query for each statement but the first, in order, the query for
\* the statement at index q (counted from 0) addressed to query q, and last
\* "set profiling=0".
C16_CollectionSequence ==
    \A i \in Variants :
        (wpc["test"][i] = "done" /\ target["test"][i] # <<>>) =>
            LET n == Len(testSql) IN
            /\ Len(issued[i]) = 2 * n + 1
            /\ \A k \in 1 .. n : issued[i][k] = <<"execute", testSql[k]>>
            /\ issued[i][n + 1] = <<"execute", "show profiles">>
            /\ \A q \in 1 .. (n - 1) :
                 /\ issued[i][n + 1 + q][1] = "show profile"
                 /\ issued[i][n + 1 + q][3] = q
            /\ issued[i][2 * n + 1] = <<"execute", "set profiling=0">>

\* a workload of three statements was profiled to the end
C16_Witness ==
    /\ wpc["test"][0] = "done"
    /\ Len(testSql) = 3
    /\ Len(issued[0]) = 7

StageLogKind(s) == CASE s = "create" -> "setting up"
                     [] s = "load"   -> "load data error"
                     [] s = "test"   -> "test error"

\* C17: every error is logged.  A worker that ended with an error has written
\* an error log entry that names its variant's instance.
C17_EveryErrorLogged ==
    \A s \in Stages : \A i \in Variants :
        wpc[s][i] = "raised" => <<StageLogKind(s), VariantId(i)>> \in log

\* C18: bootstrap only after readiness.  A provisioning worker that is past
\* its polling loop, holds a connection or has executed a statement has seen
\* its own instance 'available'; while the last status it saw is another one
\* it is still polling.
C18_BootstrapAfterReady ==
    \A i \in Variants :
        /\ (\/ wpc["create"][i] \in {"c_connect", "c_cursor", "c_createdb",
                                     "c_grant", "c_except", "c_finally", "done"}
            \/ dbopen["create"][i]
            \/ nexec["create"][i] > 0
            \/ granted[i])
              => (seen[i] = "available" /\ account[VariantId(i)] # "creating")
        /\ (wpc["create"][i] = "c_while" /\ seen[i] # "available")
              => ENABLED create_db_poll(i)

\* one worker executes CREATE DATABASE after seeing 'available' while another
\* keeps polling an instance it saw 'failed'
C18_Witness ==
    \E i, j \in Variants :
        /\ wpc["create"][i] = "c_createdb" /\ seen[i] = "available"
        /\ wpc["create"][j] = "c_sleep" /\ seen[j] = "failed"

\* C19: load stops at the first failing statement.  load_db passes the load
\* statements to c.execute in their order; every statement before the last
\* one passed succeeded, and after a failure the error is logged with the
\* instance id and the worker returns without raising.
C19_LoadStopsAtFailure ==
    \A i \in Variants :
        /\ Len(loaded[i]) <= Len(loadSql)
        /\ \A k \in 1 .. Len(loaded[i]) : loaded[i][k].stmt = loadSql[k]
        /\ \A k \in 1 .. (Len(loaded[i]) - 1) : loaded[i][k].ok
        /\ (loaded[i] # <<>> /\ ~loaded[i][Len(loaded[i])].ok) =>
             /\ wpc["load"][i] \in {"l_except", "l_finally", "done"}
             /\ wpc["load"][i] \in {"l_finally", "done"}
                   => <<"load data error", VariantId(i)>> \in log

\* the second of three load statements failed and the worker returned
C19_Witness ==
    /\ Len(loadSql) = 3
    /\ Len(loaded[0]) = 2
    /\ ~loaded[0][2].ok
    /\ wpc["load"][0] = "done"

\* C20: per-variant resource identity.  The load and test workers of index
\* i use the instance id the provisioning worker of index i used,
\* '{label}-{i}-{parameter group i}'; the ids and the parameter-group names of
\* distinct variants differ; every id contains the label.
C20_ResourceIdentity ==
    /\ \A i \in Variants : \A s \in Stages :
         target[s][i] # <<>> =>
            /\ target[s][i] = target["create"][i]
            /\ target[s][i] =
                 label \o <<"-", ToString(i), "-">> \o pgroups[i + 1]
            /\ Contains(label, target[s][i])
            /\ \A j \in Variants \ {i} : target[s][i] # target["create"][j]
    /\ \A k, l \in 1 .. Len(pgroups) : k # l => pgroups[k] # pgroups[l]

\* the load and test workers of both variants have looked up their instance
C20_Witness ==
    \A i \in Variants :
        target["load"][i] # <<>> /\ target["test"][i] # <<>>

====
